---- MODULE Spec2Model ----
(***************************************************************************)
(* Account-identity maintenance of the registry: src/controllers/user/me.rs *)
(*                                                                         *)
(* The handlers me, update_user, confirm_user_email,                       *)
(* regenerate_token_and_send and update_email_notifications run as         *)
(* concurrent requests, each on its own connection, against one store      *)
(* holding the tables users, emails and crate_owners.  A transaction's     *)
(* writes stay private to the request until it commits; a row written by   *)
(* an open transaction is locked against the writes of the others.         *)
(***************************************************************************)
EXTENDS Integers, Sequences, FiniteSets, TLC

\* ------------------------------------------------------------------ bounds
MaxToken == 2
MaxPayloadLen == 2

Users == {1, 2}
\* the workers serving requests at the same time
Reqs == {1, 2}
Crates == {1, 2}
\* tokens the store can hand out, and one more that it never does
Tokens == 1..MaxToken
UrlTokens == 1..(MaxToken + 1)

\* ------------------------------------------------------ program constants
ErrMismatch == "current user does not match requested user"
ErrJson == "invalid json request"
ErrEmpty == "empty email rejected"
ErrToken == "Error in creating token"
ErrTokenNotFound == "Email belonging to token not found."
ErrEmailNotFound == "Email could not be found"
ErrSending == "Error in sending email"
ErrStore == "store error"
ErrPanic == "panic"
Ok == "ok"

\* OwnerKind::User as i32, and the other kind
KindUser == 0
KindTeam == 1
Kinds == {KindUser, KindTeam}
\* owner ids: a team may carry the same id as a user
TeamIds == {1}

\* ------------------------------------------------------------ text values
\* a string is a sequence of one-character strings
IsSpace(c) == c = " "

RECURSIVE TrimStart(_)
TrimStart(s) ==
    IF s # <<>> /\ IsSpace(Head(s)) THEN TrimStart(Tail(s)) ELSE s

RECURSIVE TrimEnd(_)
TrimEnd(s) ==
    IF s # <<>> /\ IsSpace(s[Len(s)]) THEN TrimEnd(SubSeq(s, 1, Len(s) - 1)) ELSE s

\* str::trim
Trim(s) == TrimEnd(TrimStart(s))

Digits == <<"0", "1", "2", "3", "4", "5", "6", "7", "8", "9">>
IsDigit(c) == \E i \in 1..10 : Digits[i] = c
DigitVal(c) == (CHOOSE i \in 1..10 : Digits[i] = c) - 1

\* i32::to_string of a non-negative id
RECURSIVE IdToString(_)
IdToString(n) ==
    IF n < 10 THEN <<Digits[n + 1]>>
    ELSE IdToString(n \div 10) \o <<Digits[(n % 10) + 1]>>

RECURSIVE DigitsValue(_)
DigitsValue(s) ==
    IF s = <<>> THEN 0
    ELSE 10 * DigitsValue(SubSeq(s, 1, Len(s) - 1)) + DigitVal(s[Len(s)])

\* str::parse::<i32>().ok(): the set holding the value, empty when it does not parse
ParseI32(s) ==
    IF s # <<>> /\ \A i \in 1..Len(s) : IsDigit(s[i]) THEN {DigitsValue(s)} ELSE {}

\* ----------------------------------------------------------------- inputs
\* Option<T> is the empty set or a singleton
None == {}
Some(x) == {x}
The(o) == CHOOSE x \in o : TRUE

RawEmails == {<<>>, <<" ">>, <<"a">>, <<" ", "a", " ">>, <<"b">>}
\* request bodies of PUT /user/:user_id: unparseable, or {user: {email: Option}}
Bodies ==
    {[json |-> FALSE, email |-> None]}
    \cup {[json |-> TRUE, email |-> None]}
    \cup {[json |-> TRUE, email |-> Some(e)] : e \in RawEmails}
\* the :user_id path segment
Names == {IdToString(u) : u \in Users} \cup {<<"0", "1">>, <<"x">>}
GhLogins == {"ghA", "ghB"}

VARIABLES
    users,      \* table users: id -> [gh_login, email]
    emails,     \* table emails: a set of rows
    owners,     \* table crate_owners: a set of rows
    nextToken,  \* the next value the emails.token default produces
    pc,         \* each request's position in its handler
    req,        \* each request's inputs
    res,        \* each request's response
    tx,         \* each request's open transaction and locals
    issued,     \* history: tokens generated for each user's row
    stale,      \* history: tokens issued before the user's last committed change
    follows,    \* table follows: a set of rows
    versions,   \* table versions: a set of rows
    feed        \* each request's page of GET /me/updates

vars == <<users, emails, owners, nextToken, pc, req, res, tx, issued, stale,
          follows, versions, feed>>

\* what a request keeps of its inputs once they are parsed and checked
NoReq == [op |-> "none", actor |-> 0, token |-> 0, payload |-> <<>>]
\* users, old, new: the rows the open transaction has written; mail: what the request
\* handed to the mailer, and whether the mailer took it
\* before: history, the tokens the user had been issued when the upsert ran
NoTx == [users |-> {}, old |-> {}, new |-> {}, addr |-> <<>>, fault |-> FALSE,
         mail |-> {}, loaded |-> {}, before |-> {}]
NoView == [email |-> None, verified |-> FALSE, verification_sent |-> FALSE,
           owned_crates |-> <<>>]
NoRes == [status |-> "none", view |-> NoView]
NoFeed == [page |-> 0, per_page |-> 0, versions |-> <<>>, more |-> FALSE]

\* --------------------------------------------------------------- the store
EmailsOf(rows, uid) == {e \in rows : e.user_id = uid}

\* the users whose gh_login is the acting user's
UsersByLogin(us, login) == {v \in DOMAIN us : us[v].gh_login = login}

\* a users row another open transaction has written
UserLocked(r, v) == \E q \in Reqs \ {r} : v \in tx[q].users
\* an emails row another open transaction has updated
RowLocked(r, e) == \E q \in Reqs \ {r} : e \in tx[q].old
\* the unique key emails.user_id, held by another open transaction's insert or update
KeyLocked(r, uid) == \E q \in Reqs \ {r} : EmailsOf(tx[q].new, uid) # {}

\* a worker without a request in progress; a new request goes to the first such worker
Free(r) ==
    /\ pc[r] \in {"idle", "done"}
    /\ \A q \in Reqs : q < r => pc[q] \notin {"idle", "done"}

\* ------------------------------------------------------- GET /me (me)
\* crates.name, by id: names sort in the reverse order of the ids
CrateNameRank(c) == Cardinality(Crates) + 1 - c

RECURSIVE OrderByName(_)
OrderByName(rows) ==
    IF rows = {} THEN <<>>
    ELSE LET first == CHOOSE x \in rows :
                          \A y \in rows : CrateNameRank(x.crate_id) <= CrateNameRank(y.crate_id)
         IN  <<first>> \o OrderByName(rows \ {first})

OwnedCrates(os, uid) ==
    LET mine == {o \in os : o.owner_id = uid /\ o.owner_kind = KindUser}
    IN  [i \in 1..Cardinality(mine) |->
            [id |-> OrderByName(mine)[i].crate_id,
             email_notifications |-> OrderByName(mine)[i].email_notifications]]

\* the profiles the left join of users and emails can yield for uid
MeViews(us, rows, os, uid) ==
    IF EmailsOf(rows, uid) = {}
    THEN {[email |-> None, verified |-> FALSE, verification_sent |-> FALSE,
           owned_crates |-> OwnedCrates(os, uid)]}
    ELSE {[email |-> Some(e.email), verified |-> e.verified,
           verification_sent |-> e.verified \/ e.token_generated_at,
           owned_crates |-> OwnedCrates(os, uid)] : e \in EmailsOf(rows, uid)}

Me(r) ==
    /\ Free(r)
    /\ \E u \in Users : \E v \in MeViews(users, emails, owners, u) :
          /\ req' = [req EXCEPT ![r] = [NoReq EXCEPT !.op = "me", !.actor = u]]
          /\ res' = [res EXCEPT ![r] = [status |-> Ok, view |-> v]]
    /\ pc' = [pc EXCEPT ![r] = "done"]
    /\ tx' = [tx EXCEPT ![r] = NoTx]
    /\ UNCHANGED <<users, emails, owners, nextToken, issued, stale, follows, versions, feed>>

\* ------------------------------------------- the emails table's own rules
\* a row as the column defaults complete it on insert
InsertedEmail(uid, addr, tok) ==
    [user_id |-> uid, email |-> addr, token |-> tok, verified |-> FALSE,
     token_generated_at |-> TRUE]

\* the token default: a new token, stamped with its generation time
TokenDefault(e, tok) == [e EXCEPT !.token = tok, !.token_generated_at = TRUE]

\* an address change asks for confirmation again
ReconfirmEmail(e, tok) == [TokenDefault(e, tok) EXCEPT !.verified = FALSE]

\* ---------------------------------------- PUT /user/:user_id (update_user)
\* the address is compared with "" as it was sent
UpdateUserCheckUntrimmed(actor, name, body) ==
    IF IdToString(actor) # name THEN ErrMismatch
    ELSE IF ~body.json THEN ErrJson
    ELSE IF body.email = None THEN ErrEmpty
    ELSE IF The(body.email) = <<>> THEN ErrEmpty
    ELSE Ok

UpdateUserCheck(actor, name, body) ==
    IF IdToString(actor) # name THEN ErrMismatch
    ELSE IF ~body.json THEN ErrJson
    ELSE IF body.email = None THEN ErrEmpty
    ELSE IF Trim(The(body.email)) = <<>> THEN ErrEmpty
    ELSE Ok

\* .set(&new_email) of the conflict branch
SetNewEmail(e, uid, addr) == [e EXCEPT !.user_id = uid, !.email = addr]

\* a plain insert: the unique key rejects a second row
UpsertEmailPlainInsert(rows, uid, addr, tok) ==
    IF EmailsOf(rows, uid) = {}
    THEN [ok |-> TRUE, old |-> {}, new |-> {InsertedEmail(uid, addr, tok)}]
    ELSE [ok |-> FALSE, old |-> {}, new |-> {}]

\* on conflict do nothing: the existing row stays as it is
UpsertEmailDoNothing(rows, uid, addr, tok) ==
    IF EmailsOf(rows, uid) = {}
    THEN [ok |-> TRUE, old |-> {}, new |-> {InsertedEmail(uid, addr, tok)}]
    ELSE [ok |-> TRUE, old |-> EmailsOf(rows, uid), new |-> EmailsOf(rows, uid)]

\* insert_into(emails).values(&new_email).on_conflict(user_id).do_update().set(&new_email)
UpsertEmail(rows, uid, addr, tok) ==
    IF EmailsOf(rows, uid) = {}
    THEN [ok |-> TRUE, old |-> {}, new |-> {InsertedEmail(uid, addr, tok)}]
    ELSE [ok |-> TRUE, old |-> EmailsOf(rows, uid),
          new |-> {ReconfirmEmail(SetNewEmail(e, uid, addr), tok) : e \in EmailsOf(rows, uid)}]

\* requests that will still draw a token
Drawing == {q \in Reqs : pc[q] \in {"cu_users", "cu_upsert", "rs_update"}}

\* what the checks make of every request the inputs allow
UpdateUserRequests ==
    {[actor |-> u, err |-> UpdateUserCheck(u, name, body),
      addr |-> IF UpdateUserCheck(u, name, body) = Ok THEN Trim(The(body.email)) ELSE <<>>]
        : u \in Users, name \in Names, body \in Bodies}

UpdateUserStart(r) ==
    /\ Free(r)
    /\ nextToken + Cardinality(Drawing) <= MaxToken
    /\ \E q \in UpdateUserRequests :
          /\ req' = [req EXCEPT ![r] = [NoReq EXCEPT !.op = "update_user", !.actor = q.actor]]
          /\ IF q.err = Ok
             THEN /\ pc' = [pc EXCEPT ![r] = "cu_users"]
                  /\ tx' = [tx EXCEPT ![r] = [NoTx EXCEPT !.addr = q.addr]]
                  /\ res' = [res EXCEPT ![r] = NoRes]
             ELSE /\ pc' = [pc EXCEPT ![r] = "done"]
                  /\ tx' = [tx EXCEPT ![r] = NoTx]
                  /\ res' = [res EXCEPT ![r] = [NoRes EXCEPT !.status = q.err]]
    /\ UNCHANGED <<users, emails, owners, nextToken, issued, stale, follows, versions, feed>>

\* update(users.filter(gh_login.eq(&user.gh_login))).set(email.eq(user_email))
UpdateUsersEmail(r) ==
    /\ pc[r] = "cu_users"
    /\ LET hit == UsersByLogin(users, users[req[r].actor].gh_login) IN
       /\ \A v \in hit : ~UserLocked(r, v)
       /\ \E fault \in BOOLEAN :
             IF fault
             THEN /\ pc' = [pc EXCEPT ![r] = "rollback"]
                  /\ tx' = [tx EXCEPT ![r].fault = TRUE]
                  /\ res' = [res EXCEPT ![r] = [NoRes EXCEPT !.status = ErrStore]]
             ELSE /\ pc' = [pc EXCEPT ![r] = "cu_upsert"]
                  /\ tx' = [tx EXCEPT ![r].users = hit]
                  /\ res' = res
    /\ UNCHANGED <<users, emails, owners, nextToken, req, issued, stale, follows, versions, feed>>

UpsertEmailStep(r) ==
    /\ pc[r] = "cu_upsert"
    /\ ~KeyLocked(r, req[r].actor)
    /\ \A e \in EmailsOf(emails, req[r].actor) : ~RowLocked(r, e)
    /\ LET up == UpsertEmail(emails, req[r].actor, tx[r].addr, nextToken) IN
       \E fault \in BOOLEAN :
          IF fault \/ ~up.ok
          THEN /\ pc' = [pc EXCEPT ![r] = "rollback"]
               /\ tx' = [tx EXCEPT ![r].fault = fault]
               /\ res' = [res EXCEPT ![r] = [NoRes EXCEPT !.status = ErrToken]]
               /\ UNCHANGED <<nextToken, issued>>
          ELSE /\ pc' = [pc EXCEPT ![r] = "cu_send"]
               /\ tx' = [tx EXCEPT ![r].old = up.old, ![r].new = up.new,
                                   ![r].before = issued[req[r].actor]]
               /\ res' = res
               /\ nextToken' = nextToken + 1
               /\ issued' = [issued EXCEPT ![req[r].actor] = @ \cup {e.token : e \in up.new}]
    /\ UNCHANGED <<users, emails, owners, req, stale, follows, versions, feed>>

\* what the transaction closure does with the outcome of send_user_confirm_email
UpdateUserAfterSendPropagates(sent) ==
    IF sent THEN [pc |-> "cu_commit", status |-> "none"]
    ELSE [pc |-> "rollback", status |-> ErrSending]

UpdateUserAfterSend(sent) == [pc |-> "cu_commit", status |-> "none"]

\* crate::email::send_user_confirm_email(user_email, &user.gh_login, &token)
SendUserConfirmEmail(r) ==
    /\ pc[r] = "cu_send"
    /\ \E sent \in BOOLEAN :
          /\ tx' = [tx EXCEPT ![r].mail =
                        {[to |-> tx[r].addr, login |-> users[req[r].actor].gh_login,
                          token |-> e.token, ok |-> sent] : e \in tx[r].new}]
          /\ pc' = [pc EXCEPT ![r] = UpdateUserAfterSend(sent).pc]
          /\ res' = [res EXCEPT ![r].status = UpdateUserAfterSend(sent).status]
    /\ UNCHANGED <<users, emails, owners, nextToken, req, issued, stale, follows, versions, feed>>

\* the committed tables once the transaction's writes are applied
CommitUsers(us, t) ==
    [v \in DOMAIN us |-> IF v \in t.users THEN [us[v] EXCEPT !.email = Some(t.addr)] ELSE us[v]]
CommitEmails(rows, t) == (rows \ t.old) \cup t.new

UpdateUserCommit(r) ==
    /\ pc[r] = "cu_commit"
    /\ users' = CommitUsers(users, tx[r])
    /\ emails' = CommitEmails(emails, tx[r])
    /\ stale' = [stale EXCEPT ![req[r].actor] = tx[r].before]
    /\ pc' = [pc EXCEPT ![r] = "done"]
    /\ res' = [res EXCEPT ![r] = [NoRes EXCEPT !.status = Ok]]
    /\ tx' = [tx EXCEPT ![r] = NoTx]
    /\ UNCHANGED <<owners, nextToken, req, issued, follows, versions, feed>>

\* the closure returned Err: the transaction's writes are dropped, the error is the response
Rollback(r) ==
    /\ pc[r] = "rollback"
    /\ pc' = [pc EXCEPT ![r] = "done"]
    /\ tx' = [tx EXCEPT ![r] = NoTx]
    /\ UNCHANGED <<users, emails, owners, nextToken, req, res, issued, stale, follows, versions, feed>>

\* -------------------------------- PUT /confirm/:email_token (confirm_user_email)
\* the filter also asks for an unverified row
ConfirmRowsUnverifiedOnly(rows, t) == {e \in rows : e.token = t /\ ~e.verified}

\* the update runs without its filter
ConfirmRowsAnyToken(rows, t) == rows

\* emails::table.filter(emails::token.eq(req_token))
ConfirmRows(rows, t) == {e \in rows : e.token = t}

\* update(...).set(emails::verified.eq(true)).execute
ConfirmUpdate(rows, t) ==
    [updated_rows |-> Cardinality(ConfirmRows(rows, t)),
     rows |-> (rows \ ConfirmRows(rows, t))
              \cup {[e EXCEPT !.verified = TRUE] : e \in ConfirmRows(rows, t)}]

ConfirmResponseAlwaysOk(updated_rows) == Ok

ConfirmResponse(updated_rows) == IF updated_rows = 0 THEN ErrTokenNotFound ELSE Ok

\* the request arrives with its :email_token
ConfirmStart(r) ==
    /\ Free(r)
    /\ \E t \in UrlTokens :
          req' = [req EXCEPT ![r] = [NoReq EXCEPT !.op = "confirm", !.token = t]]
    /\ pc' = [pc EXCEPT ![r] = "cf_update"]
    /\ res' = [res EXCEPT ![r] = NoRes]
    /\ tx' = [tx EXCEPT ![r] = NoTx]
    /\ UNCHANGED <<users, emails, owners, nextToken, issued, stale, follows, versions, feed>>

\* the one statement, committed on its own
ConfirmUserEmail(r) ==
    /\ pc[r] = "cf_update"
    /\ \A e \in ConfirmRows(emails, req[r].token) : ~RowLocked(r, e)
    /\ emails' = ConfirmUpdate(emails, req[r].token).rows
    /\ res' = [res EXCEPT ![r] =
                  [NoRes EXCEPT !.status =
                      ConfirmResponse(ConfirmUpdate(emails, req[r].token).updated_rows)]]
    /\ pc' = [pc EXCEPT ![r] = "done"]
    /\ UNCHANGED <<users, owners, nextToken, req, tx, issued, stale, follows, versions, feed>>

\* ------------------------ PUT /user/:user_id/resend (regenerate_token_and_send)
RegenerateCheck(actor, name) ==
    IF ParseI32(name) = None THEN ErrPanic
    ELSE IF actor # The(ParseI32(name)) THEN ErrMismatch
    ELSE Ok

\* an upsert in place of the update: a user without a row gets one
RegenerateTokenOrCreate(rows, uid, tok) ==
    IF EmailsOf(rows, uid) = {}
    THEN [old |-> {}, new |-> {InsertedEmail(uid, <<>>, tok)}]
    ELSE [old |-> EmailsOf(rows, uid),
          new |-> {TokenDefault(e, tok) : e \in EmailsOf(rows, uid)}]

\* the new token comes with a reset of the verified flag
RegenerateTokenUnverifies(rows, uid, tok) ==
    [old |-> EmailsOf(rows, uid),
     new |-> {ReconfirmEmail(e, tok) : e \in EmailsOf(rows, uid)}]

\* update(Email::belonging_to(user)).set(emails::token.eq(sql("DEFAULT")))
RegenerateToken(rows, uid, tok) ==
    [old |-> EmailsOf(rows, uid),
     new |-> {TokenDefault(e, tok) : e \in EmailsOf(rows, uid)}]

RegenerateRequests ==
    {[actor |-> u, err |-> RegenerateCheck(u, name)] : u \in Users, name \in Names}

RegenerateStart(r) ==
    /\ Free(r)
    /\ nextToken + Cardinality(Drawing) <= MaxToken
    /\ \E q \in RegenerateRequests :
          /\ req' = [req EXCEPT ![r] = [NoReq EXCEPT !.op = "regenerate", !.actor = q.actor]]
          /\ IF q.err = Ok
             THEN /\ pc' = [pc EXCEPT ![r] = "rs_update"]
                  /\ res' = [res EXCEPT ![r] = NoRes]
             ELSE /\ pc' = [pc EXCEPT ![r] = "done"]
                  /\ res' = [res EXCEPT ![r] = [NoRes EXCEPT !.status = q.err]]
    /\ tx' = [tx EXCEPT ![r] = NoTx]
    /\ UNCHANGED <<users, emails, owners, nextToken, issued, stale, follows, versions, feed>>

RegenerateTokenStep(r) ==
    /\ pc[r] = "rs_update"
    /\ \A e \in EmailsOf(emails, req[r].actor) : ~RowLocked(r, e)
    /\ LET up == RegenerateToken(emails, req[r].actor, nextToken) IN
       IF up.new = {}
       THEN \* get_result finds no row
            /\ pc' = [pc EXCEPT ![r] = "rollback"]
            /\ res' = [res EXCEPT ![r] = [NoRes EXCEPT !.status = ErrEmailNotFound]]
            /\ UNCHANGED <<tx, nextToken, issued>>
       ELSE /\ pc' = [pc EXCEPT ![r] = "rs_send"]
            /\ tx' = [tx EXCEPT ![r].old = up.old, ![r].new = up.new]
            /\ res' = res
            /\ nextToken' = nextToken + 1
            /\ issued' = [issued EXCEPT ![req[r].actor] = @ \cup {e.token : e \in up.new}]
    /\ UNCHANGED <<users, emails, owners, req, stale, follows, versions, feed>>

\* the send error is reported, yet the closure's writes are committed
RegenerateAfterSendCommits(sent) ==
    IF sent THEN [pc |-> "rs_commit", status |-> Ok]
    ELSE [pc |-> "rs_commit", status |-> ErrSending]

\* try_send_user_confirm_email(...).map_err(|_| bad_request("Error in sending email"))
RegenerateAfterSend(sent) ==
    IF sent THEN [pc |-> "rs_commit", status |-> Ok]
    ELSE [pc |-> "rollback", status |-> ErrSending]

TrySendUserConfirmEmail(r) ==
    /\ pc[r] = "rs_send"
    /\ \E sent \in BOOLEAN :
          /\ tx' = [tx EXCEPT ![r].mail =
                        {[to |-> e.email, login |-> users[req[r].actor].gh_login,
                          token |-> e.token, ok |-> sent] : e \in tx[r].new}]
          /\ pc' = [pc EXCEPT ![r] = RegenerateAfterSend(sent).pc]
          /\ res' = [res EXCEPT ![r] = [NoRes EXCEPT !.status = RegenerateAfterSend(sent).status]]
    /\ UNCHANGED <<users, emails, owners, nextToken, req, issued, stale, follows, versions, feed>>

RegenerateCommit(r) ==
    /\ pc[r] = "rs_commit"
    /\ emails' = CommitEmails(emails, tx[r])
    /\ pc' = [pc EXCEPT ![r] = "done"]
    /\ tx' = [tx EXCEPT ![r] = NoTx]
    /\ UNCHANGED <<users, owners, nextToken, req, res, issued, stale, follows, versions, feed>>

\* ------------------- PUT /me/email_notifications (update_email_notifications)
\* Vec<CrateEmailNotifications> collected into a HashMap: a later pair replaces an earlier one
RECURSIVE CollectUpdates(_)
CollectUpdates(list) ==
    IF list = <<>> THEN <<>>
    ELSE LET front == CollectUpdates(SubSeq(list, 1, Len(list) - 1))
             last == list[Len(list)]
         IN  [c \in DOMAIN front \cup {last.id} |->
                 IF c = last.id THEN last.email_notifications ELSE front[c]]

\* CrateOwner::by_owner_kind(kind)
ByOwnerKind(os, kind) == {o \in os : o.owner_kind = kind}

\* the rows of the owner id, whatever the kind of owner
LoadOwnedAnyKind(os, uid) == {o \in os : o.owner_id = uid}

\* by_owner_kind(OwnerKind::User).filter(owner_id.eq(user.id)).load
LoadOwned(os, uid) == {o \in ByOwnerKind(os, KindUser) : o.owner_id = uid}

\* a crate the request does not name is reset
ToInsertDefaultFalse(loaded, updates) ==
    {[o EXCEPT !.email_notifications =
          IF o.crate_id \in DOMAIN updates THEN updates[o.crate_id] ELSE FALSE] : o \in loaded}

\* the candidate says whether the value changes, not what it becomes
ToInsertChanged(loaded, updates) ==
    {[o EXCEPT !.email_notifications =
          IF o.crate_id \in DOMAIN updates
          THEN updates[o.crate_id] # o.email_notifications
          ELSE o.email_notifications] : o \in loaded}

\* the candidate carries the crate id as owner and the owner id as crate
ToInsertSwappedIds(loaded, updates) ==
    {[o EXCEPT !.crate_id = o.owner_id, !.owner_id = o.crate_id,
               !.email_notifications =
                   IF o.crate_id \in DOMAIN updates THEN updates[o.crate_id]
                   ELSE o.email_notifications] : o \in loaded}

\* *updates.get(&c_id).unwrap_or(&e_notifications), for every loaded row
ToInsert(loaded, updates) ==
    {[o EXCEPT !.email_notifications =
          IF o.crate_id \in DOMAIN updates THEN updates[o.crate_id] ELSE o.email_notifications]
        : o \in loaded}

SameOwner(a, b) ==
    a.crate_id = b.crate_id /\ a.owner_id = b.owner_id /\ a.owner_kind = b.owner_kind

\* insert_into(crate_owners).values(&to_insert).on_conflict((crate_id, owner_id, owner_kind))
\*     .do_update().set(email_notifications.eq(excluded(email_notifications)))
UpsertOwners(os, cands) ==
    {IF \E c \in cands : SameOwner(c, o)
        THEN [o EXCEPT !.email_notifications =
                 (CHOOSE c \in cands : SameOwner(c, o)).email_notifications]
        ELSE o : o \in os}
    \cup {c \in cands : ~\E o \in os : SameOwner(c, o)}

\* one request run alone: the load, then the upsert
SyncOnce(os, uid, updates) == UpsertOwners(os, ToInsert(LoadOwned(os, uid), updates))

RECURSIVE SeqsUpTo(_, _)
SeqsUpTo(S, n) ==
    IF n = 0 THEN {<<>>}
    ELSE SeqsUpTo(S, n - 1) \cup {Append(q, x) : q \in SeqsUpTo(S, n - 1), x \in S}

\* request bodies: unparseable, or a list of (id, email_notifications) pairs
PayloadPairs == [id : Crates, email_notifications : BOOLEAN]
Payloads == SeqsUpTo(PayloadPairs, MaxPayloadLen)
PayloadMaps == {CollectUpdates(p) : p \in Payloads}
NotificationRequests ==
    {[actor |-> u, err |-> ErrJson, updates |-> <<>>] : u \in Users}
    \cup {[actor |-> u, err |-> Ok, updates |-> CollectUpdates(p)] : u \in Users, p \in Payloads}

\* the body is parsed and the acting user's rows are loaded
LoadCrateOwners(r) ==
    /\ Free(r)
    /\ \E q \in NotificationRequests :
          IF q.err = Ok
          THEN /\ pc' = [pc EXCEPT ![r] = "en_upsert"]
               /\ req' = [req EXCEPT ![r] = [NoReq EXCEPT !.op = "notifications",
                                               !.actor = q.actor, !.payload = q.updates]]
               /\ tx' = [tx EXCEPT ![r] = [NoTx EXCEPT !.loaded = LoadOwned(owners, q.actor)]]
               /\ res' = [res EXCEPT ![r] = NoRes]
          ELSE /\ pc' = [pc EXCEPT ![r] = "done"]
               /\ req' = [req EXCEPT ![r] = [NoReq EXCEPT !.op = "notifications",
                                               !.actor = q.actor]]
               /\ tx' = [tx EXCEPT ![r] = NoTx]
               /\ res' = [res EXCEPT ![r] = [NoRes EXCEPT !.status = q.err]]
    /\ UNCHANGED <<users, emails, owners, nextToken, issued, stale, follows, versions, feed>>

UpsertCrateOwners(r) ==
    /\ pc[r] = "en_upsert"
    /\ owners' = UpsertOwners(owners, ToInsert(tx[r].loaded, req[r].payload))
    /\ pc' = [pc EXCEPT ![r] = "done"]
    /\ tx' = [tx EXCEPT ![r] = NoTx]
    /\ res' = [res EXCEPT ![r] = [NoRes EXCEPT !.status = Ok]]
    /\ UNCHANGED <<users, emails, nextToken, req, issued, stale, follows, versions, feed>>

\* --------------------------------------------------- GET /me/updates (updates)
\* Follow::belonging_to(user).select(follows::crate_id)
FollowedCrates(fs, uid) == {f.crate_id : f \in {g \in fs : g.user_id = uid}}

\* versions joined to their crate, .filter(crates::id.eq(any(followed_crates)))
FollowedVersions(vs, fs, uid) == {v \in vs : v.crate_id \in FollowedCrates(fs, uid)}

\* oldest first
RECURSIVE OrderByCreatedAtAsc(_)
OrderByCreatedAtAsc(S) ==
    IF S = {} THEN {<<>>}
    ELSE UNION {{<<x>> \o q : q \in OrderByCreatedAtAsc(S \ {x})}
                : x \in {y \in S : \A z \in S : y.created_at <= z.created_at}}

\* .order(versions::created_at.desc()): every sequence the database may answer with;
\* rows of equal created_at come in any order
RECURSIVE OrderByCreatedAtDesc(_)
OrderByCreatedAtDesc(S) ==
    IF S = {} THEN {<<>>}
    ELSE UNION {{<<x>> \o q : q \in OrderByCreatedAtDesc(S \ {x})}
                : x \in {y \in S : \A z \in S : y.created_at >= z.created_at}}

\* .paginate(&req.query()): the rows of the numbered page
Paginate(q, page, per_page) ==
    SubSeq(q, (page - 1) * per_page + 1,
           IF page * per_page < Len(q) THEN page * per_page ELSE Len(q))

\* data.next_page_params().is_some()
NextPageParams(q, page, per_page) ==
    IF Paginate(q, page + 1, per_page) # <<>> THEN {page + 1} ELSE {}

\* the pages a request may ask for
MaxPage == 3
PerPages == {1, 2}
UpdatesRequests == [actor : Users, page : 1..MaxPage, per_page : PerPages]

UpdatesStart(r) ==
    /\ Free(r)
    /\ \E q \in UpdatesRequests :
          /\ req' = [req EXCEPT ![r] = [NoReq EXCEPT !.op = "updates", !.actor = q.actor]]
          /\ feed' = [feed EXCEPT ![r] = [NoFeed EXCEPT !.page = q.page,
                                                        !.per_page = q.per_page]]
    /\ pc' = [pc EXCEPT ![r] = "up_load"]
    /\ res' = [res EXCEPT ![r] = NoRes]
    /\ tx' = [tx EXCEPT ![r] = NoTx]
    /\ UNCHANGED <<users, emails, owners, nextToken, issued, stale, follows, versions>>

\* the query is loaded and the response is built
UpdatesLoad(r) ==
    /\ pc[r] = "up_load"
    /\ \E data \in OrderByCreatedAtDesc(FollowedVersions(versions, follows, req[r].actor)) :
          feed' = [feed EXCEPT
                     ![r].versions = Paginate(data, feed[r].page, feed[r].per_page),
                     ![r].more = NextPageParams(data, feed[r].page, feed[r].per_page) # {}]
    /\ pc' = [pc EXCEPT ![r] = "done"]
    /\ res' = [res EXCEPT ![r] = [NoRes EXCEPT !.status = Ok]]
    /\ UNCHANGED <<users, emails, owners, nextToken, req, tx, issued, stale, follows, versions>>

\* ------------------------------------------------------ the specification
\* ownership as granted before: user 1 owns both crates, a team owns the first
SampleOwners ==
    {[crate_id |-> c, owner_id |-> 1, owner_kind |-> KindUser, email_notifications |-> TRUE]
        : c \in Crates}
    \cup {[crate_id |-> 1, owner_id |-> 1, owner_kind |-> KindTeam, email_notifications |-> TRUE]}

InitRequests ==
    /\ pc = [r \in Reqs |-> "idle"]
    /\ req = [r \in Reqs |-> NoReq]
    /\ res = [r \in Reqs |-> NoRes]
    /\ tx = [r \in Reqs |-> NoTx]
    /\ feed = [r \in Reqs |-> NoFeed]

\* registered users without an email yet; two users may carry the same gh_login
InitIdentity ==
    /\ users \in {us \in [Users -> [gh_login : GhLogins, email : {None}]] : us[1].gh_login = "ghA"}
    /\ emails = {}
    /\ nextToken = 1
    /\ issued = [u \in Users |-> {}]
    /\ stale = [u \in Users |-> {}]

\* nothing is followed and nothing is published
InitNoFeed ==
    /\ follows = {}
    /\ versions = {}

Init ==
    /\ InitIdentity
    /\ InitRequests
    /\ InitNoFeed
    /\ owners = SampleOwners

Next ==
    \E r \in Reqs :
        \/ Me(r)
        \/ UpdateUserStart(r)
        \/ UpdateUsersEmail(r)
        \/ UpsertEmailStep(r)
        \/ SendUserConfirmEmail(r)
        \/ UpdateUserCommit(r)
        \/ Rollback(r)
        \/ ConfirmStart(r)
        \/ ConfirmUserEmail(r)
        \/ RegenerateStart(r)
        \/ RegenerateTokenStep(r)
        \/ TrySendUserConfirmEmail(r)
        \/ RegenerateCommit(r)

Spec == Init /\ [][Next]_vars

\* the ownership rows that may have been granted: user 1 on each crate, and every user
\* on the first crate; a team owns the first crate
UserOwnerKeys ==
    {[crate_id |-> c, owner_id |-> 1, owner_kind |-> KindUser] : c \in Crates}
    \cup {[crate_id |-> 1, owner_id |-> u, owner_kind |-> KindUser] : u \in Users}
TeamOwnerKeys == {[crate_id |-> 1, owner_id |-> t, owner_kind |-> KindTeam] : t \in TeamIds}

\* every ownership state: (crate, owner, kind) is unique, the flags are free
OwnerStates ==
    UNION {{ {[crate_id |-> k.crate_id, owner_id |-> k.owner_id, owner_kind |-> k.owner_kind,
               email_notifications |-> f[k]] : k \in ks} : f \in [ks -> BOOLEAN]}
           : ks \in {us \cup TeamOwnerKeys : us \in SUBSET UserOwnerKeys}}

InitSync ==
    /\ InitIdentity
    /\ InitRequests
    /\ InitNoFeed
    /\ users[2].gh_login = "ghB"
    /\ owners \in OwnerStates

NextSync ==
    \E r \in Reqs :
        \/ LoadCrateOwners(r)
        \/ UpsertCrateOwners(r)

SpecSync == InitSync /\ [][NextSync]_vars

\* published versions: ids are given in order of publication, so created_at does not
\* fall as the id grows; two versions may carry the same created_at
VersionIds == {1, 2, 3}
Times == {1, 2}
VersionTables ==
    UNION {{t \in SUBSET [id : 1..n, crate_id : Crates, created_at : Times] :
               /\ \A i \in 1..n : \E v \in t : v.id = i
               /\ \A v, w \in t :
                     /\ v.id = w.id => v = w
                     /\ v.id < w.id => v.created_at <= w.created_at}
           : n \in {0} \cup VersionIds}

\* user 1 follows any crates, user 2 follows the second crate
FollowTables ==
    {{[user_id |-> 1, crate_id |-> c] : c \in cs} \cup {[user_id |-> 2, crate_id |-> 2]}
        : cs \in SUBSET Crates}

InitFeed ==
    /\ InitIdentity
    /\ InitRequests
    /\ users[2].gh_login = "ghB"
    /\ owners = SampleOwners
    /\ follows \in FollowTables
    /\ versions \in VersionTables

NextFeed ==
    \E r \in Reqs :
        \/ UpdatesStart(r)
        \/ UpdatesLoad(r)

SpecFeed == InitFeed /\ [][NextFeed]_vars

\* ------------------------------------------------------------ properties
\* steps of a request, told by its position before and after
UpdateUserCommits(r) == pc[r] = "cu_commit" /\ pc'[r] = "done"
MailFailed(r) == \E m \in tx[r].mail : ~m.ok

\* C1: when a change of address by u to addr commits, whatever u's email row was before
\* (absent, unverified or verified), the profile GET /me then builds for u reports
\* verified = false and the address addr.
C1_ProfileAfterChange ==
    [][\A r \in Reqs :
          UpdateUserCommits(r) =>
              \A v \in MeViews(users', emails', owners', req[r].actor) :
                  ~v.verified /\ v.email = Some(tx[r].addr)]_vars

\* a change over a verified row has run its statements and is about to commit
C1_Witness ==
    \E r \in Reqs :
        /\ pc[r] = "cu_commit"
        /\ \E e \in tx[r].old : e.verified /\ e.email # tx[r].addr

\* C2: once a change of address by u has committed, confirming with a token issued to u
\* before that change does not verify u: no such token matches u's row, and the statement
\* of confirm_user_email, run with it, leaves u's row as it is.
C2_StaleTokenProvesNothing ==
    \A u \in Users : \A t \in stale[u] :
        /\ ConfirmRows(emails, t) \cap EmailsOf(emails, u) = {}
        /\ EmailsOf(ConfirmUpdate(emails, t).rows, u) = EmailsOf(emails, u)

\* u has changed address after a token was issued, and a request confirms with that token
C2_Witness ==
    \E r \in Reqs : \E u \in Users :
        /\ pc[r] = "done"
        /\ req[r].op = "confirm"
        /\ req[r].token \in stale[u]
        /\ res[r].status = ErrTokenNotFound
        /\ EmailsOf(emails, u) # {}

\* a resend whose notification was not taken completes
RegenerateFailsToSend(r) ==
    /\ req[r].op = "regenerate"
    /\ pc[r] \in {"rollback", "rs_commit"}
    /\ MailFailed(r)
    /\ pc'[r] = "done"

\* C3 as stated: when the dispatch of a resend fails the caller gets an error and the
\* newly generated token is the stored one.
C3_RotationCommitsOnSendFailure ==
    [][\A r \in Reqs :
          RegenerateFailsToSend(r) =>
              /\ res'[r].status = ErrSending
              /\ tx[r].new \subseteq emails'
              /\ \A e \in tx[r].old : e \notin emails']_vars

\* C3 amended: when the dispatch of a resend fails the caller gets an error and the
\* rotation is rolled back: the stored row still carries the token it had before the call.
C3_RotationRolledBackOnSendFailure ==
    [][\A r \in Reqs :
          RegenerateFailsToSend(r) =>
              /\ res'[r].status = ErrSending
              /\ emails' = emails
              /\ tx[r].old \subseteq emails'
              /\ \A e \in tx[r].new : e \notin emails']_vars

\* a resend has rotated the token in its transaction and the dispatch has failed
C3_Witness ==
    \E r \in Reqs :
        /\ req[r].op = "regenerate"
        /\ pc[r] = "rollback"
        /\ MailFailed(r)
        /\ tx[r].new # {}
        /\ res[r].status = ErrSending

\* C4: however two changes of address by the same user interleave, also when the user
\* has no row yet: the upsert fails only on a store fault, never on a duplicate row; a
\* user never has two rows; a commit leaves the user exactly one row, with the
\* committer's address; and only a commit of the user's own change alters that address.
C4_ConcurrentChanges ==
    [][/\ \A r \in Reqs :
            /\ (pc[r] = "cu_upsert" /\ pc'[r] = "rollback") => tx'[r].fault
            /\ UpdateUserCommits(r) =>
                   /\ res'[r].status = Ok
                   /\ Cardinality(EmailsOf(emails', req[r].actor)) = 1
                   /\ \A e \in EmailsOf(emails', req[r].actor) : e.email = tx[r].addr
       /\ \A u \in Users :
            /\ Cardinality(EmailsOf(emails', u)) <= 1
            /\ {e.email : e \in EmailsOf(emails', u)} # {e.email : e \in EmailsOf(emails, u)}
                   => \E r \in Reqs : UpdateUserCommits(r) /\ req[r].actor = u]_vars

\* two changes by one user to different addresses are open at once, before any row exists
C4_Witness ==
    \E r, q \in Reqs :
        /\ r # q
        /\ pc[r] = "cu_commit"
        /\ pc[q] = "cu_users"
        /\ req[r].actor = req[q].actor
        /\ tx[r].addr # tx[q].addr
        /\ EmailsOf(emails, req[r].actor) = {}

\* C5: for every token that matches a row, confirming twice in a row succeeds both
\* times, the row is verified after each, and the second confirmation changes nothing:
\* the token still matches and is the same.
C5_ConfirmIdempotent ==
    \A t \in UrlTokens :
        ConfirmRows(emails, t) # {} =>
            LET first == ConfirmUpdate(emails, t)
                second == ConfirmUpdate(first.rows, t)
            IN  /\ ConfirmResponse(first.updated_rows) = Ok
                /\ ConfirmResponse(second.updated_rows) = Ok
                /\ \A e \in ConfirmRows(first.rows, t) : e.verified
                /\ {e.user_id : e \in ConfirmRows(first.rows, t)}
                       = {e.user_id : e \in ConfirmRows(emails, t)}
                /\ second.rows = first.rows

\* two requests have confirmed with the same matching token, and both succeeded
C5_Witness ==
    \E r, q \in Reqs :
        /\ r # q
        /\ pc[r] = "done" /\ pc[q] = "done"
        /\ req[r].op = "confirm" /\ req[q].op = "confirm"
        /\ req[r].token = req[q].token
        /\ res[r].status = Ok /\ res[q].status = Ok
        /\ \E e \in emails : e.token = req[r].token /\ e.verified

\* C6: a confirmation with a token that matches no row answers with the not-found
\* error, the same whatever users and rows there are, and leaves every row unchanged.
C6_UnknownTokenNotFound ==
    [][\A r \in Reqs :
          (pc[r] = "cf_update" /\ pc'[r] = "done" /\ ConfirmRows(emails, req[r].token) = {}) =>
              /\ res'[r].status = ErrTokenNotFound
              /\ emails' = emails
              /\ users' = users]_vars

\* a confirmation with an unknown token was answered while rows exist
C6_Witness ==
    \E r \in Reqs :
        /\ pc[r] = "done"
        /\ req[r].op = "confirm"
        /\ ConfirmRows(emails, req[r].token) = {}
        /\ res[r].status = ErrTokenNotFound
        /\ emails # {}

\* C7: a resend for a user without an email row fails with the not-found error, hands
\* nothing to the mailer and creates no row.
C7_ResendWithoutRow ==
    [][\A r \in Reqs :
          /\ (pc[r] = "rs_update" /\ pc'[r] # "rs_update"
                 /\ EmailsOf(emails, req[r].actor) = {}) =>
                 /\ pc'[r] = "rollback"
                 /\ res'[r].status = ErrEmailNotFound
                 /\ tx'[r].mail = {}
                 /\ emails' = emails
          /\ (pc[r] = "rollback" /\ pc'[r] = "done" /\ req[r].op = "regenerate"
                 /\ res[r].status = ErrEmailNotFound) =>
                 /\ res'[r].status = ErrEmailNotFound
                 /\ tx[r].mail = {}
                 /\ emails' = emails]_vars

\* a resend found no row for its user
C7_Witness ==
    \E r \in Reqs :
        /\ req[r].op = "regenerate"
        /\ pc[r] = "rollback"
        /\ res[r].status = ErrEmailNotFound
        /\ EmailsOf(emails, req[r].actor) = {}

\* C8: in a change of address, a failed dispatch of the notification does not undo the
\* change: the transaction goes on to commit, the request succeeds, and the user's
\* stored address and email row hold the new address.
C8_SendFailureKeepsChange ==
    [][\A r \in Reqs :
          /\ (pc[r] = "cu_send" /\ pc'[r] # "cu_send") => pc'[r] = "cu_commit"
          /\ (pc[r] = "cu_commit" /\ MailFailed(r) /\ pc'[r] # "cu_commit") =>
                 /\ pc'[r] = "done"
                 /\ res'[r].status = Ok
                 /\ users'[req[r].actor].email = Some(tx[r].addr)
                 /\ \E e \in EmailsOf(emails', req[r].actor) : e.email = tx[r].addr]_vars

\* a change whose notification was not taken is about to commit
C8_Witness ==
    \E r \in Reqs :
        /\ req[r].op = "update_user"
        /\ pc[r] = "cu_commit"
        /\ MailFailed(r)

OwnerFlags(os, o) == {x.email_notifications : x \in {y \in os : SameOwner(y, o)}}

\* C9: for every ownership state, user and payload, the request applied twice in a row
\* leaves the ownership rows as the request applied once leaves them.
C9_SyncIdempotent ==
    \A u \in Users : \A m \in PayloadMaps :
        LET once == SyncOnce(owners, u, m)
        IN  SyncOnce(once, u, m) = once

\* one user has sent the same non-empty payload twice, both were applied, and it names a
\* crate the user owns
C9_Witness ==
    \E r, q \in Reqs :
        /\ r # q
        /\ pc[r] = "done" /\ pc[q] = "done"
        /\ req[r].op = "notifications" /\ req[q].op = "notifications"
        /\ res[r].status = Ok /\ res[q].status = Ok
        /\ req[r].actor = req[q].actor
        /\ req[r].payload = req[q].payload
        /\ \E o \in LoadOwned(owners, req[r].actor) : o.crate_id \in DOMAIN req[r].payload

\* C10: when a request's upsert runs, every crate the user owned when the request
\* loaded its rows ends with the submitted value if the payload names it, and with the
\* value it was loaded with if not.
C10_SyncFrame ==
    [][\A r \in Reqs :
          (pc[r] = "en_upsert" /\ pc'[r] = "done") =>
              \A o \in tx[r].loaded :
                  OwnerFlags(owners', o) =
                      IF o.crate_id \in DOMAIN req[r].payload
                      THEN {req[r].payload[o.crate_id]}
                      ELSE {o.email_notifications}]_vars

\* a request was applied that names one owned crate and leaves another owned crate,
\* whose notifications are off, out
C10_Witness ==
    \E r \in Reqs :
        /\ pc[r] = "done"
        /\ req[r].op = "notifications"
        /\ res[r].status = Ok
        /\ \E a, b \in LoadOwned(owners, req[r].actor) :
              /\ a.crate_id \in DOMAIN req[r].payload
              /\ a.email_notifications = req[r].payload[a.crate_id]
              /\ b.crate_id \notin DOMAIN req[r].payload
              /\ ~b.email_notifications

OwnerKey(o) == [crate_id |-> o.crate_id, owner_id |-> o.owner_id, owner_kind |-> o.owner_kind]
OwnerKeys(os) == {OwnerKey(o) : o \in os}

\* C11: no step of a preference update creates or removes an ownership row: the set of
\* (crate, owner, kind) keys stays as it was, whatever the payloads, and a parsed request,
\* also one naming a crate its user does not own, is answered with success.
C11_SyncCreatesNoOwnership ==
    [][/\ OwnerKeys(owners') = OwnerKeys(owners)
       /\ Cardinality(owners') = Cardinality(OwnerKeys(owners'))
       /\ \A r \in Reqs :
             (pc[r] = "en_upsert" /\ pc'[r] = "done") => res'[r].status = Ok]_vars

\* a request naming a crate its user does not own, while the user owns another, was applied
C11_Witness ==
    \E r \in Reqs :
        /\ pc[r] = "done"
        /\ req[r].op = "notifications"
        /\ res[r].status = Ok
        /\ LoadOwned(owners, req[r].actor) # {}
        /\ \E c \in DOMAIN req[r].payload :
              \A o \in LoadOwned(owners, req[r].actor) : o.crate_id # c

\* C12: the upsert of a request by user u leaves every row whose owner is not u, or whose
\* owner is a team (also the team whose id is u's), exactly as it was.
C12_SyncTouchesOwnRowsOnly ==
    [][\A r \in Reqs :
          (pc[r] = "en_upsert" /\ pc'[r] = "done") =>
              \A o \in owners :
                  (o.owner_id # req[r].actor \/ o.owner_kind # KindUser) => o \in owners']_vars

\* user u's request has set a crate's flag, and on that crate the team with u's id and
\* another user hold rows with the opposite flag
C12_Witness ==
    \E r \in Reqs :
        /\ pc[r] = "done"
        /\ req[r].op = "notifications"
        /\ res[r].status = Ok
        /\ \E a \in LoadOwned(owners, req[r].actor) :
              /\ a.crate_id \in DOMAIN req[r].payload
              /\ a.email_notifications = req[r].payload[a.crate_id]
              /\ \E t, v \in owners :
                    /\ t.crate_id = a.crate_id /\ v.crate_id = a.crate_id
                    /\ t.owner_kind = KindTeam /\ t.owner_id = a.owner_id
                    /\ v.owner_kind = KindUser /\ v.owner_id # a.owner_id
                    /\ t.email_notifications # a.email_notifications
                    /\ v.email_notifications # a.email_notifications

\* a change of address arrives and meets the checks, before any statement runs
UpdateUserArrives(r) ==
    /\ pc[r] \in {"idle", "done"}
    /\ pc'[r] \in {"done", "cu_users"}
    /\ req'[r].op = "update_user"
    /\ <<pc[r], req[r], res[r]>> # <<pc'[r], req'[r], res'[r]>>

\* the checks refuse every request that names another user or carries no address
UpdateUserRefusals ==
    \A u \in Users : \A name \in Names : \A body \in Bodies :
        /\ IdToString(u) # name => UpdateUserCheck(u, name, body) = ErrMismatch
        /\ (IdToString(u) = name /\ body.json
               /\ (body.email = None \/ Trim(The(body.email)) = <<>>))
               => UpdateUserCheck(u, name, body) = ErrEmpty

\* C13: a change of address whose path names another user than the acting one, or whose
\* address is absent or empty once trimmed, is refused by the checks; and a change the
\* checks refuse is answered with their error, leaves the users and emails tables as they
\* were, and hands nothing to the mailer.
C13_RejectedChangeTouchesNothing ==
    [][\A r \in Reqs :
          UpdateUserArrives(r) =>
              /\ UpdateUserRefusals
              /\ pc'[r] = "done" =>
                    /\ res'[r].status \in {ErrMismatch, ErrJson, ErrEmpty}
                    /\ users' = users
                    /\ emails' = emails
                    /\ tx'[r].mail = {}
                    /\ \A q \in Reqs : tx'[q].mail = tx[q].mail]_vars

\* a change was refused for a user who has an address and an email row
C13_Witness ==
    \E r \in Reqs :
        /\ pc[r] = "done"
        /\ req[r].op = "update_user"
        /\ res[r].status \in {ErrMismatch, ErrEmpty}
        /\ users[req[r].actor].email # None
        /\ EmailsOf(emails, req[r].actor) # {}

\* a request for a page of the feed was answered
UpdatesDone(r) == pc[r] = "done" /\ req[r].op = "updates" /\ res[r].status = Ok

\* C14: an answered page of the feed holds only published versions of crates its user
\* follows, at most per_page of them, with created_at never rising along the page; no
\* version of the same user's following page is newer than a version of this page; and
\* more is true exactly when the following page would hold a version, which is also
\* what an answered request for that page shows.
C14_FeedPages ==
    \A r \in Reqs :
        UpdatesDone(r) =>
            LET page == feed[r].versions
                mine == {v \in versions :
                            \E f \in follows :
                                f.user_id = req[r].actor /\ f.crate_id = v.crate_id}
            IN  /\ \A i \in DOMAIN page : page[i] \in mine
                /\ Len(page) <= feed[r].per_page
                /\ \A i, j \in DOMAIN page :
                      i < j => page[i].created_at >= page[j].created_at
                /\ feed[r].more <=> Cardinality(mine) > feed[r].page * feed[r].per_page
                /\ \A q \in Reqs :
                      (/\ UpdatesDone(q)
                       /\ req[q].actor = req[r].actor
                       /\ feed[q].per_page = feed[r].per_page
                       /\ feed[q].page = feed[r].page + 1) =>
                          /\ \A i \in DOMAIN page : \A j \in DOMAIN feed[q].versions :
                                page[i].created_at >= feed[q].versions[j].created_at
                          /\ feed[r].more <=> feed[q].versions # <<>>

\* a user who does not follow every published crate was answered two consecutive pages,
\* both with versions, the later page with an older version and no page after it
C14_Witness ==
    \E r, q \in Reqs :
        /\ UpdatesDone(r) /\ UpdatesDone(q)
        /\ req[q].actor = req[r].actor
        /\ feed[q].per_page = feed[r].per_page
        /\ feed[q].page = feed[r].page + 1
        /\ feed[r].more /\ ~feed[q].more
        /\ feed[q].versions # <<>>
        /\ feed[r].versions[1].created_at > feed[q].versions[1].created_at
        /\ \E v \in versions :
              \A f \in follows : f.user_id = req[r].actor => f.crate_id # v.crate_id

\* the flags of user u's rows are what the payload says, for the crates it names
PayloadInPlace(os, u, m) ==
    \A o \in LoadOwned(os, u) : o.crate_id \in DOMAIN m => o.email_notifications = m[o.crate_id]

\* C15: two requests of one user that name disjoint crates the user owns do not lose
\* each other's update: when one request's upsert runs while the values the other
\* request submitted are in place, both requests' values are in place after it.
C15_DisjointSyncsBothKept ==
    [][\A r, q \in Reqs :
          (/\ r # q
           /\ pc[r] = "en_upsert" /\ pc'[r] = "done"
           /\ pc[q] = "done" /\ req[q].op = "notifications" /\ res[q].status = Ok
           /\ req[q].actor = req[r].actor
           /\ DOMAIN req[q].payload \cap DOMAIN req[r].payload = {}
           /\ \E a, b \in tx[r].loaded :
                 a.crate_id \in DOMAIN req[r].payload /\ b.crate_id \in DOMAIN req[q].payload
           /\ PayloadInPlace(owners, req[q].actor, req[q].payload)) =>
              /\ PayloadInPlace(owners', req[q].actor, req[q].payload)
              /\ PayloadInPlace(owners', req[r].actor, req[r].payload)]_vars

\* C16: a change of address hands its notification to the mailer only once its
\* transaction has committed: when the notification with token t goes out, the committed
\* email row of the user holds t and the new address.
C16_DispatchAfterCommit ==
    [][\A r \in Reqs :
          (pc[r] = "cu_send" /\ pc'[r] # "cu_send") =>
              /\ tx'[r].mail # {}
              /\ \A m \in tx'[r].mail :
                    \E e \in EmailsOf(emails', req[r].actor) :
                        e.token = m.token /\ e.email = m.to]_vars

\* the address stored with user u is the address of u's email row
AddressesAgree(us, rows, u) ==
    IF EmailsOf(rows, u) = {} THEN us[u].email = None
    ELSE \A e \in EmailsOf(rows, u) : us[u].email = Some(e.email)

\* C17: a change of address writes the stored address and the email row together or not
\* at all: in every committed state each user's stored address and email row carry the
\* same address, that of one request, and a change that fails after the stored address
\* was overwritten is rolled back, leaving both tables as they were.
C17_ChangeIsAtomic ==
    [][/\ \A u \in Users : AddressesAgree(users', emails', u)
       /\ \A r \in Reqs :
             (pc[r] = "rollback" /\ req[r].op = "update_user" /\ pc'[r] = "done") =>
                 users' = users /\ emails' = emails]_vars

VerifiedOf(rows, u) == \E e \in EmailsOf(rows, u) : e.verified

\* C18: a user's email row becomes verified only in the step of a confirmation that
\* succeeds and whose token is the token that row holds; no step of a change of address,
\* a resend or a profile read turns an unverified or absent row into a verified one.
C18_VerifiedOnlyByConfirm ==
    [][\A u \in Users :
          (~VerifiedOf(emails, u) /\ VerifiedOf(emails', u)) =>
              \E r \in Reqs :
                  /\ pc[r] = "cf_update" /\ pc'[r] = "done"
                  /\ req[r].op = "confirm"
                  /\ res'[r].status = Ok
                  /\ \E e \in EmailsOf(emails, u) : e.token = req[r].token /\ ~e.verified
                  /\ \A e \in EmailsOf(emails', u) : e.token = req[r].token]_vars

\* a confirmation has verified one user's row while another user's row, with another
\* token, is still unverified
C18_Witness ==
    \E r \in Reqs : \E e, f \in emails :
        /\ pc[r] = "done"
        /\ req[r].op = "confirm"
        /\ res[r].status = Ok
        /\ e.token = req[r].token /\ e.verified
        /\ f.user_id # e.user_id /\ ~f.verified

\* C19: when a resend for user u commits, u's row keeps its address and its verified
\* flag and carries a token other than the one before, so that a confirmation with the
\* previous token no longer matches u's row; the notification handed to the mailer
\* carries the new token and the row's address; and no other row or user changes.
C19_ResendChangesTokenOnly ==
    [][\A r \in Reqs :
          (pc[r] = "rs_commit" /\ pc'[r] = "done") =>
              LET u == req[r].actor IN
              /\ res'[r].status = Ok
              /\ users' = users
              /\ \A v \in Users \ {u} : EmailsOf(emails', v) = EmailsOf(emails, v)
              /\ Cardinality(EmailsOf(emails, u)) = 1
              /\ Cardinality(EmailsOf(emails', u)) = 1
              /\ \A old \in EmailsOf(emails, u) : \A new \in EmailsOf(emails', u) :
                    /\ new.email = old.email
                    /\ new.verified = old.verified
                    /\ new.token # old.token
                    /\ ConfirmRows(emails', old.token) \cap EmailsOf(emails', u) = {}
                    /\ \E m \in tx[r].mail : m.ok
                    /\ \A m \in tx[r].mail : m.token = new.token /\ m.to = new.email]_vars

\* a resend for a user whose row is verified was answered with success
C19_Witness ==
    \E r \in Reqs :
        /\ pc[r] = "done"
        /\ req[r].op = "regenerate"
        /\ res[r].status = Ok
        /\ VerifiedOf(emails, req[r].actor)

\* C20: a change of address by user u modifies u's records only: when it commits, the
\* stored address and the email row of every other user, also of one with u's gh_login,
\* are as they were.
C20_ChangeTouchesOwnRecordsOnly ==
    [][\A r \in Reqs :
          UpdateUserCommits(r) =>
              \A v \in Users \ {req[r].actor} :
                  /\ users'[v] = users[v]
                  /\ EmailsOf(emails', v) = EmailsOf(emails, v)]_vars

====
